---- MODULE Spec2Model ----
(***************************************************************************)
(* State-machine model of the token swap contract (src/src/offer.rs,       *)
(* src/src/lib.rs): the offer store, the fee registry, the allowlist and   *)
(* the balances of the token ledger the contract moves.                    *)
(*                                                                         *)
(* Every contract call is one action.  A panic aborts the invocation and   *)
(* the host rolls all of its effects back, so a failing call leaves every  *)
(* variable unchanged; what a call would answer in a state is given by the *)
(* operators create_result, accept_result, update_result, close_result.    *)
(* A transfer the token contract refuses makes the call trap after the     *)
(* transfers before it; the *_refused actions take the refused step as an  *)
(* input.                                                                  *)
(***************************************************************************)
EXTENDS Integers, FiniteSets, Sequences, TLC

VARIABLES
    fee_info,     \* DataKey::FeeInfo: NoFee, or [fee_rate, fee_wallet]
    allowed,      \* the set of tokens with an allow entry
    offers,       \* DataKey::RegOffers: OfferId -> OfferInfo, stored ids only
    balance,      \* token ledger: balance[token][account]
    allowance,    \* token ledger: allowance[token][owner] granted to the contract
    fills,        \* history per offer id: what its accepts released and took
    last_call     \* the last call that succeeded, with its arguments

vars == <<fee_info, allowed, offers, balance, allowance, fills, last_call>>

----------------------------------------------------------------------------
(* Bounds of the model *)

\* largest amount a caller passes; stands for u64::MAX, the width of the
\* amounts of the entry points (lib.rs)
MaxAmount == 3
\* what the offeror holds of the send token and the acceptor of the recv
\* token at the start
InitBalance == 4

\* i128::MAX on the scale of MaxAmount: i128 has twice the width of u64,
\* so i128::MAX = (u64::MAX + 1)^2 / 2 - 1
I128_MAX == ((MaxAmount + 1) * (MaxAmount + 1)) \div 2 - 1

\* the entry points take their amounts as u64, so the engine's i128
\* arguments are never negative
Amounts == 0..MaxAmount

Users == {"alice", "bob"}
Tokens == {"A", "B"}
\* the fee policies set_fee is called with
FeeRates == {50}
FeeWallets == {"fw"}

\* e.current_contract_address(): the escrow holding account
contract == "contract"
Accounts == Users \cup FeeWallets \cup {contract}

FEE_DECIMALS == 2

NoFee == [fee_rate |-> 0, fee_wallet |-> "none"]

ACTIVE == "ACTIVE"
COMPLETE == "COMPLETE"
CANCEL == "CANCEL"

\* OfferKey, and the OfferId derived from it: sha256 of the key's XDR is
\* modelled as the key itself (no collisions)
OfferKey(offeror, send_token, recv_token, timestamp) ==
    <<offeror, send_token, recv_token, timestamp>>

\* the keys create is called with
OneKey == {OfferKey("alice", "A", "B", 1)}
TwoKeys == {OfferKey("alice", "A", "B", 1), OfferKey("bob", "B", "A", 1)}

NoId == <<"none", "none", "none", 0>>

----------------------------------------------------------------------------
(* Collaborators: fee registry, allowlist, token ledger *)

fee_check == fee_info # NoFee

fee_get == fee_info

allow_get(token) == token \in allowed

RECURSIVE Pow10(_)
Pow10(n) == IF n = 0 THEN 1 ELSE 10 * Pow10(n - 1)

\* Rust's integer division truncates toward zero
TruncDiv(a, b) == IF a >= 0 THEN a \div b ELSE -((-a) \div b)

\* calculate_fee rounding the fee up instead of truncating
calculate_fee_ceil(fi, amount) ==
    TruncDiv(amount * fi.fee_rate + Pow10(FEE_DECIMALS) - 1, Pow10(FEE_DECIMALS))

calculate_fee(fi, amount) ==
    TruncDiv(amount * fi.fee_rate, Pow10(FEE_DECIMALS))

\* token::Client::transfer: aborts on a negative amount or a short balance
CanTransfer(bal, token, from, amount) ==
    amount >= 0 /\ bal[token][from] >= amount

Transfer(bal, token, from, to, amount) ==
    LET debited == [bal EXCEPT ![token][from] = @ - amount]
    IN  [debited EXCEPT ![token][to] = @ + amount]

\* offer_load's unwrap: the record must be stored
offer_stored(offer_id) == offer_id \in DOMAIN offers

\* storage set: the record under offer_id is written or overwritten
offer_write(store, offer_id, offer) ==
    [k \in DOMAIN store \cup {offer_id} |->
        IF k = offer_id THEN offer ELSE store[k]]

----------------------------------------------------------------------------
(* Results of a call *)

Ok == "ok"

\* a successful call as the event it publishes tells it (create with its
\* amounts as well)
Call(op, id) ==
    [op |-> op, id |-> id, who |-> "none",
     amount |-> 0, send_amount |-> 0, recv_amount |-> 0, min_recv_amount |-> 0]

\* the allowances the users have granted to the contract on the ledger
FullAllowance == [t \in Tokens |-> [u \in Users |-> 2 * MaxAmount]]
ShortAllowance == [t \in Tokens |-> [u \in Users |-> MaxAmount - 1]]

StartBalance == [t \in Tokens |-> [a \in Accounts |->
                    IF (a = "alice" /\ t = "A") \/ (a = "bob" /\ t = "B")
                    THEN InitBalance ELSE 0]]

Init ==
    /\ fee_info = NoFee
    /\ allowed = {}
    /\ offers = <<>>
    /\ balance = StartBalance
    /\ allowance \in {FullAllowance, ShortAllowance}
    /\ fills = <<>>
    /\ last_call = Call("init", NoId)

----------------------------------------------------------------------------
(* lib.rs: set_fee, allow_token, disallow_token *)

set_fee(fee_rate, fee_wallet) ==
    /\ fee_info' = [fee_rate |-> fee_rate, fee_wallet |-> fee_wallet]
    /\ last_call' = Call("set_fee", NoId)
    /\ UNCHANGED <<allowed, offers, balance, allowance, fills>>

allow_token(token) ==
    /\ allowed' = allowed \cup {token}
    /\ last_call' = Call("allow_token", NoId)
    /\ UNCHANGED <<fee_info, offers, balance, allowance, fills>>

disallow_token(token) ==
    /\ allowed' = allowed \ {token}
    /\ last_call' = Call("disallow_token", NoId)
    /\ UNCHANGED <<fee_info, offers, balance, allowance, fills>>

\* a trap that leaves the transfers made before it on the ledger
trap_keeps_transfers(bal) ==
    /\ balance' = bal
    /\ UNCHANGED <<fee_info, allowed, offers, allowance, fills, last_call>>

\* a transfer that fails makes the contract trap, and the host rolls the
\* invocation back: bal, the ledger as the transfers before the failing one
\* left it, is discarded
trap(bal) == UNCHANGED vars

----------------------------------------------------------------------------
(* offer_create *)

\* offer_exists looking only for an ACTIVE record
offer_exists_active(offer_id) ==
    offer_id \in DOMAIN offers /\ offers[offer_id].status = ACTIVE

\* e.storage().instance().has(&DataKey::RegOffers(offer_id))
offer_exists(offer_id) == offer_id \in DOMAIN offers

\* create_result validating the amounts before the allowlist and the id, as
\* offer_update validates its arguments first
create_result_args_first(offeror, send_token, recv_token, timestamp, send_amount, recv_amount, min_recv_amount, authorized) ==
    LET offer_id == OfferKey(offeror, send_token, recv_token, timestamp)
        fee_amount == calculate_fee(fee_get, send_amount)
        transfer_amount == send_amount + fee_amount
    IN  IF ~fee_check THEN "fee wasn't set"
        ELSE IF send_amount = 0 \/ recv_amount = 0 THEN "zero amount is not allowed"
        ELSE IF min_recv_amount > recv_amount
            THEN "min_recv_amount can't be greater than recv_amount"
        ELSE IF ~allow_get(send_token) \/ ~allow_get(recv_token)
            THEN "both tokens aren't allowed"
        ELSE IF offer_id \in DOMAIN offers THEN "offer was already created"
        ELSE IF ~authorized THEN "require_auth failed"
        ELSE IF balance[send_token][offeror] < transfer_amount
            THEN "insufficient balance"
        ELSE IF allowance[send_token][offeror] < transfer_amount
            THEN "insufficient allowance"
        ELSE Ok

\* the first panic offer_create runs into, or Ok
create_result(offeror, send_token, recv_token, timestamp, send_amount, recv_amount, min_recv_amount, authorized) ==
    LET offer_id == OfferKey(offeror, send_token, recv_token, timestamp)
        fee_amount == calculate_fee(fee_get, send_amount)
        transfer_amount == send_amount + fee_amount
        escrowed == Transfer(balance, send_token, offeror, contract, send_amount)
    IN  IF ~fee_check THEN "fee wasn't set"
        ELSE IF ~allow_get(send_token) \/ ~allow_get(recv_token)
            THEN "both tokens aren't allowed"
        ELSE IF offer_exists(offer_id) THEN "offer was already created"
        ELSE IF send_amount = 0 \/ recv_amount = 0 THEN "zero amount is not allowed"
        ELSE IF min_recv_amount > recv_amount
            THEN "min_recv_amount can't be greater than recv_amount"
        ELSE IF ~authorized THEN "require_auth failed"
        ELSE IF balance[send_token][offeror] < transfer_amount
            THEN "insufficient balance"
        ELSE IF allowance[send_token][offeror] < transfer_amount
            THEN "insufficient allowance"
        ELSE IF ~CanTransfer(balance, send_token, offeror, send_amount)
            THEN "transfer failed"
        ELSE IF ~CanTransfer(escrowed, send_token, offeror, fee_amount)
            THEN "transfer failed"
        ELSE Ok

offer_create(offeror, send_token, recv_token, timestamp, send_amount, recv_amount, min_recv_amount, authorized) ==
    LET offer_id == OfferKey(offeror, send_token, recv_token, timestamp)
        res == create_result(offeror, send_token, recv_token, timestamp,
                             send_amount, recv_amount, min_recv_amount, authorized)
        fee_amount == calculate_fee(fee_get, send_amount)
        escrowed == Transfer(balance, send_token, offeror, contract, send_amount)
    IN  IF res # Ok
        THEN UNCHANGED vars
        ELSE /\ balance' = Transfer(escrowed, send_token, offeror,
                                    fee_get.fee_wallet, fee_amount)
             /\ offers' = offer_write(offers, offer_id,
                    [offeror |-> offeror,
                     send_token |-> send_token,
                     recv_token |-> recv_token,
                     send_amount |-> send_amount,
                     recv_amount |-> recv_amount,
                     min_recv_amount |-> min_recv_amount,
                     status |-> ACTIVE])
             /\ fills' = offer_write(fills, offer_id,
                    [init_send |-> send_amount, released |-> 0,
                     init_recv |-> recv_amount, accepted |-> 0])
             /\ last_call' = [Call("create", offer_id) EXCEPT
                    !.who = offeror,
                    !.send_amount = send_amount,
                    !.recv_amount = recv_amount,
                    !.min_recv_amount = min_recv_amount]
             /\ UNCHANGED <<fee_info, allowed, allowance>>

\* offer_create in which the token contract refuses transfer number step
offer_create_refused(offeror, send_token, recv_token, timestamp, send_amount, recv_amount, min_recv_amount, step) ==
    LET escrowed == Transfer(balance, send_token, offeror, contract, send_amount)
    IN  /\ create_result(offeror, send_token, recv_token, timestamp,
                         send_amount, recv_amount, min_recv_amount, TRUE) = Ok
        /\ trap(IF step = 1 THEN balance ELSE escrowed)

----------------------------------------------------------------------------
(* offer_accept *)

\* offer_available letting a COMPLETE offer through
not_cancelled(offer) == offer.status # CANCEL

\* offer_available asking the allowlist again for both assets
still_allowed(offer) ==
    offer.status = ACTIVE /\ allow_get(offer.send_token) /\ allow_get(offer.recv_token)

\* offer.status != OfferStatus::ACTIVE is the panic "offer not available"
offer_available(offer) == offer.status = ACTIVE

\* checked_mul_fits multiplying in the width of the amounts, u64
checked_mul_fits_u64(a, b) == a * b <= MaxAmount /\ a * b >= 0

\* checked_mul_fits of a wrapping multiplication, which never fails
wrapping_mul_fits(a, b) == TRUE

\* amount.checked_mul(send_amount): None when the product leaves i128
checked_mul_fits(a, b) == a * b <= I128_MAX /\ a * b >= -I128_MAX - 1

\* prop_send rounding the released amount up
prop_send_round_up(offer, amount) ==
    TruncDiv(amount * offer.send_amount + offer.recv_amount - 1, offer.recv_amount)

prop_send(offer, amount) ==
    TruncDiv(amount * offer.send_amount, offer.recv_amount)

\* the three transfers of the trade, in their order
\* trade paying the accepted amount to the contract, not to the offeror
pay_contract(bal, offer, acceptor, fee_wallet, amount, fee_amount, prop_send_amount) ==
    LET b1 == Transfer(bal, offer.recv_token, acceptor, fee_wallet, fee_amount)
        b2 == Transfer(b1, offer.recv_token, acceptor, contract, amount)
    IN  Transfer(b2, offer.send_token, contract, acceptor, prop_send_amount)

\* trade releasing the accepted amount instead of the proportional one
trade_releases_amount(bal, offer, acceptor, fee_wallet, amount, fee_amount, prop_send_amount) ==
    LET b1 == Transfer(bal, offer.recv_token, acceptor, fee_wallet, fee_amount)
        b2 == Transfer(b1, offer.recv_token, acceptor, offer.offeror, amount)
    IN  Transfer(b2, offer.send_token, contract, acceptor, amount)

trade(bal, offer, acceptor, fee_wallet, amount, fee_amount, prop_send_amount) ==
    LET b1 == Transfer(bal, offer.recv_token, acceptor, fee_wallet, fee_amount)
        b2 == Transfer(b1, offer.recv_token, acceptor, offer.offeror, amount)
    IN  Transfer(b2, offer.send_token, contract, acceptor, prop_send_amount)

\* below_min letting through an amount one short of the minimum
below_min_off_by_one(offer, amount) == amount < offer.min_recv_amount - 1

\* amount < offer.min_recv_amount is the panic "amount must be more than
\* min_recv_amount"
below_min(offer, amount) == amount < offer.min_recv_amount

\* the first panic offer_accept runs into, or Ok
accept_result(offer_id, acceptor, amount, authorized) ==
    IF ~offer_stored(offer_id) THEN "offer not found"
    ELSE
    LET offer == offers[offer_id]
        fee_amount == calculate_fee(fee_get, amount)
        prop_send_amount == prop_send(offer, amount)
        b1 == Transfer(balance, offer.recv_token, acceptor,
                       fee_get.fee_wallet, fee_amount)
        b2 == Transfer(b1, offer.recv_token, acceptor, offer.offeror, amount)
    IN  IF ~fee_check THEN "fee isn't set"
        ELSE IF ~offer_available(offer) THEN "offer not available"
        ELSE IF offer.recv_amount < amount
            THEN "amount is greater than max_recv_amount"
        ELSE IF below_min(offer, amount)
            THEN "amount must be more than min_recv_amount"
        ELSE IF ~authorized THEN "require_auth failed"
        ELSE IF balance[offer.recv_token][acceptor] < amount + fee_amount
            THEN "insufficient balance"
        ELSE IF allowance[offer.recv_token][acceptor] < amount + fee_amount
            THEN "insufficient allowance"
        ELSE IF ~checked_mul_fits(amount, offer.send_amount)
            THEN "arithmetic overflow"
        ELSE IF offer.recv_amount = 0 THEN "division by zero"
        ELSE IF ~CanTransfer(balance, offer.recv_token, acceptor, fee_amount)
            THEN "transfer failed"
        ELSE IF ~CanTransfer(b1, offer.recv_token, acceptor, amount)
            THEN "transfer failed"
        ELSE IF ~CanTransfer(b2, offer.send_token, contract, prop_send_amount)
            THEN "transfer failed"
        ELSE Ok

\* accepted_offer without the clamp of min_recv_amount
accepted_offer_no_clamp(offer, amount, prop_send_amount) ==
    LET sent == [offer EXCEPT
                    !.send_amount = @ - prop_send_amount,
                    !.recv_amount = @ - amount]
    IN  IF sent.recv_amount = 0
        THEN [sent EXCEPT !.status = COMPLETE]
        ELSE sent

\* accepted_offer completing only below zero
accepted_offer_late_complete(offer, amount, prop_send_amount) ==
    LET sent == [offer EXCEPT
                    !.send_amount = @ - prop_send_amount,
                    !.recv_amount = @ - amount]
    IN  IF sent.recv_amount < 0
        THEN [sent EXCEPT !.status = COMPLETE]
        ELSE IF sent.recv_amount < sent.min_recv_amount
        THEN [sent EXCEPT !.min_recv_amount = sent.recv_amount]
        ELSE sent

\* accepted_offer lowering send_amount by the accepted amount
accepted_offer_by_amount(offer, amount, prop_send_amount) ==
    LET sent == [offer EXCEPT
                    !.send_amount = @ - amount,
                    !.recv_amount = @ - amount]
    IN  IF sent.recv_amount = 0
        THEN [sent EXCEPT !.status = COMPLETE]
        ELSE IF sent.recv_amount < sent.min_recv_amount
        THEN [sent EXCEPT !.min_recv_amount = sent.recv_amount]
        ELSE sent

\* accepted_offer lowering recv_amount by the released amount
accepted_offer_recv_by_prop(offer, amount, prop_send_amount) ==
    LET sent == [offer EXCEPT
                    !.send_amount = @ - prop_send_amount,
                    !.recv_amount = @ - prop_send_amount]
    IN  IF sent.recv_amount = 0
        THEN [sent EXCEPT !.status = COMPLETE]
        ELSE IF sent.recv_amount < sent.min_recv_amount
        THEN [sent EXCEPT !.min_recv_amount = sent.recv_amount]
        ELSE sent

\* accepted_offer writing back the recv_amount it loaded
accepted_offer_lost_update(offer, amount, prop_send_amount) ==
    [offer EXCEPT !.send_amount = @ - prop_send_amount]

\* accepted_offer completing an offer whose rest is below its minimum
accepted_offer_dust_completes(offer, amount, prop_send_amount) ==
    LET sent == [offer EXCEPT
                    !.send_amount = @ - prop_send_amount,
                    !.recv_amount = @ - amount]
    IN  IF sent.recv_amount = 0 \/ sent.recv_amount < sent.min_recv_amount
        THEN [sent EXCEPT !.status = COMPLETE]
        ELSE sent

\* the record offer_accept writes back
accepted_offer(offer, amount, prop_send_amount) ==
    LET sent == [offer EXCEPT
                    !.send_amount = @ - prop_send_amount,
                    !.recv_amount = @ - amount]
    IN  IF sent.recv_amount = 0
        THEN [sent EXCEPT !.status = COMPLETE]
        ELSE IF sent.recv_amount < sent.min_recv_amount
        THEN [sent EXCEPT !.min_recv_amount = sent.recv_amount]
        ELSE sent

offer_accept(offer_id, acceptor, amount, authorized) ==
    IF accept_result(offer_id, acceptor, amount, authorized) # Ok
    THEN UNCHANGED vars
    ELSE
    LET offer == offers[offer_id]
        fee_amount == calculate_fee(fee_get, amount)
        prop_send_amount == prop_send(offer, amount)
    IN  /\ balance' = trade(balance, offer, acceptor, fee_get.fee_wallet,
                            amount, fee_amount, prop_send_amount)
        /\ offers' = offer_write(offers, offer_id,
                                 accepted_offer(offer, amount, prop_send_amount))
        /\ fills' = [fills EXCEPT
                ![offer_id].released = @ + prop_send_amount,
                ![offer_id].accepted = @ + amount]
        /\ last_call' = [Call("accept", offer_id) EXCEPT
                !.who = acceptor, !.amount = amount]
        /\ UNCHANGED <<fee_info, allowed, allowance>>

\* offer_accept in which the token contract refuses transfer number step
offer_accept_refused(offer_id, acceptor, amount, step) ==
    /\ accept_result(offer_id, acceptor, amount, TRUE) = Ok
    /\ LET offer == offers[offer_id]
           fee_amount == calculate_fee(fee_get, amount)
           b1 == Transfer(balance, offer.recv_token, acceptor,
                          fee_get.fee_wallet, fee_amount)
           b2 == Transfer(b1, offer.recv_token, acceptor, offer.offeror, amount)
       IN  trap(IF step = 1 THEN balance ELSE IF step = 2 THEN b1 ELSE b2)

----------------------------------------------------------------------------
(* offer_update *)

update_result(offer_id, recv_amount, min_recv_amount, authorized) ==
    IF recv_amount = 0 THEN "zero amount is not allowed"
    ELSE IF min_recv_amount > recv_amount
        THEN "min_recv_amount can't be greater than recv_amount"
    ELSE IF ~offer_stored(offer_id) THEN "offer not found"
    ELSE IF ~offer_available(offers[offer_id]) THEN "offer not available"
    ELSE IF ~authorized THEN "require_auth failed"
    ELSE Ok

\* updated_offer writing send_amount as well
updated_offer_and_send(offer, recv_amount, min_recv_amount) ==
    [offer EXCEPT !.send_amount = recv_amount,
                  !.recv_amount = recv_amount,
                  !.min_recv_amount = min_recv_amount]

\* the record offer_update writes back
updated_offer(offer, recv_amount, min_recv_amount) ==
    [offer EXCEPT !.recv_amount = recv_amount,
                  !.min_recv_amount = min_recv_amount]

offer_update(offer_id, recv_amount, min_recv_amount, authorized) ==
    IF update_result(offer_id, recv_amount, min_recv_amount, authorized) # Ok
    THEN UNCHANGED vars
    ELSE /\ offers' = offer_write(offers, offer_id,
                updated_offer(offers[offer_id], recv_amount, min_recv_amount))
         /\ fills' = [fills EXCEPT
                ![offer_id].init_recv = recv_amount,
                ![offer_id].accepted = 0]
         /\ last_call' = [Call("update", offer_id) EXCEPT
                !.recv_amount = recv_amount,
                !.min_recv_amount = min_recv_amount]
         /\ UNCHANGED <<fee_info, allowed, balance, allowance>>

----------------------------------------------------------------------------
(* offer_close *)

\* refund of the recv_amount field
refund_recv_amount(offer) == offer.recv_amount

\* what offer_close transfers back to the offeror
refund(offer) == offer.send_amount

close_result(offer_id, authorized) ==
    IF ~offer_stored(offer_id) THEN "offer not found"
    ELSE IF ~offer_available(offers[offer_id]) THEN "offer not available"
    ELSE IF ~authorized THEN "require_auth failed"
    ELSE IF ~CanTransfer(balance, offers[offer_id].send_token, contract,
                         refund(offers[offer_id]))
        THEN "transfer failed"
    ELSE Ok

offer_close(offer_id, authorized) ==
    IF close_result(offer_id, authorized) # Ok
    THEN UNCHANGED vars
    ELSE
    LET offer == offers[offer_id]
    IN  /\ balance' = Transfer(balance, offer.send_token, contract,
                                offer.offeror, refund(offer))
        /\ offers' = offer_write(offers, offer_id, [offer EXCEPT !.status = CANCEL])
        /\ last_call' = Call("close", offer_id)
        /\ UNCHANGED <<fee_info, allowed, allowance, fills>>

\* offer_close in which the token contract refuses the refund
offer_close_refused(offer_id) ==
    /\ close_result(offer_id, TRUE) = Ok
    /\ trap(balance)

----------------------------------------------------------------------------
(* Specifications *)

\* the transfers of a call, numbered in their order; a refused create is
\* called with one admissible recv_amount and min_recv_amount, which its
\* transfers do not depend on
TransfersOfCreate == 1..2
TransfersOfAccept == 1..3

\* a call that fails is a stuttering step, which every specification below
\* allows in any state; its next-state relation takes the calls that succeed

\* one offer key, every amount, both users accepting
Next ==
    \/ \E r \in FeeRates, w \in FeeWallets : set_fee(r, w)
    \/ \E t \in Tokens : allow_token(t)
    \/ \E t \in Tokens : disallow_token(t)
    \/ \E k \in OneKey, sa \in Amounts, ra \in Amounts, mra \in Amounts,
          au \in BOOLEAN :
            /\ create_result(k[1], k[2], k[3], k[4], sa, ra, mra, au) = Ok
            /\ offer_create(k[1], k[2], k[3], k[4], sa, ra, mra, au)
    \/ \E id \in OneKey, acc \in Users, a \in Amounts, au \in BOOLEAN :
            /\ accept_result(id, acc, a, au) = Ok
            /\ offer_accept(id, acc, a, au)
    \/ \E id \in OneKey, ra \in Amounts, mra \in Amounts, au \in BOOLEAN :
            /\ update_result(id, ra, mra, au) = Ok
            /\ offer_update(id, ra, mra, au)
    \/ \E id \in OneKey, au \in BOOLEAN :
            /\ close_result(id, au) = Ok
            /\ offer_close(id, au)
    \/ \E k \in OneKey, sa \in Amounts, step \in TransfersOfCreate :
            offer_create_refused(k[1], k[2], k[3], k[4], sa, MaxAmount, 0, step)
    \/ \E id \in OneKey, acc \in Users, a \in Amounts, step \in TransfersOfAccept :
            offer_accept_refused(id, acc, a, step)
    \/ \E id \in OneKey : offer_close_refused(id)

Spec == Init /\ [][Next]_vars

\* two offers side by side, alice selling A for B and bob selling B for A,
\* with the smaller amounts and every allowance granted
SmallAmounts == 1..2
SmallMinimums == 0..1

InitTwo ==
    /\ fee_info = NoFee
    /\ allowed = {}
    /\ offers = <<>>
    /\ balance = StartBalance
    /\ allowance = FullAllowance
    /\ fills = <<>>
    /\ last_call = Call("init", NoId)

NextTwo ==
    \/ \E r \in FeeRates, w \in FeeWallets : set_fee(r, w)
    \/ \E t \in Tokens : allow_token(t)
    \/ \E k \in TwoKeys, sa \in SmallAmounts, ra \in SmallAmounts,
          mra \in SmallMinimums, au \in BOOLEAN :
            /\ create_result(k[1], k[2], k[3], k[4], sa, ra, mra, au) = Ok
            /\ offer_create(k[1], k[2], k[3], k[4], sa, ra, mra, au)
    \/ \E id \in TwoKeys, acc \in Users, a \in SmallAmounts, au \in BOOLEAN :
            /\ accept_result(id, acc, a, au) = Ok
            /\ offer_accept(id, acc, a, au)
    \/ \E id \in TwoKeys, ra \in SmallAmounts, mra \in SmallMinimums,
          au \in BOOLEAN :
            /\ update_result(id, ra, mra, au) = Ok
            /\ offer_update(id, ra, mra, au)
    \/ \E id \in TwoKeys, au \in BOOLEAN :
            /\ close_result(id, au) = Ok
            /\ offer_close(id, au)
    \/ \E k \in TwoKeys, sa \in SmallAmounts, step \in TransfersOfCreate :
            offer_create_refused(k[1], k[2], k[3], k[4], sa, MaxAmount, 0, step)
    \/ \E id \in TwoKeys, acc \in Users, a \in SmallAmounts,
          step \in TransfersOfAccept :
            offer_accept_refused(id, acc, a, step)
    \/ \E id \in TwoKeys : offer_close_refused(id)

SpecTwo == InitTwo /\ [][NextTwo]_vars

\* two offers of the same offeror escrowing the same asset
SameKeys == {OfferKey("alice", "A", "B", 1), OfferKey("alice", "A", "B", 2)}

NextSame ==
    \/ \E r \in FeeRates, w \in FeeWallets : set_fee(r, w)
    \/ \E t \in Tokens : allow_token(t)
    \/ \E k \in SameKeys, sa \in SmallAmounts, ra \in SmallAmounts,
          mra \in SmallMinimums, au \in BOOLEAN :
            /\ create_result(k[1], k[2], k[3], k[4], sa, ra, mra, au) = Ok
            /\ offer_create(k[1], k[2], k[3], k[4], sa, ra, mra, au)
    \/ \E id \in SameKeys, acc \in Users, a \in SmallAmounts, au \in BOOLEAN :
            /\ accept_result(id, acc, a, au) = Ok
            /\ offer_accept(id, acc, a, au)
    \/ \E id \in SameKeys, ra \in SmallAmounts, mra \in SmallMinimums,
          au \in BOOLEAN :
            /\ update_result(id, ra, mra, au) = Ok
            /\ offer_update(id, ra, mra, au)
    \/ \E id \in SameKeys, au \in BOOLEAN :
            /\ close_result(id, au) = Ok
            /\ offer_close(id, au)
    \/ \E k \in SameKeys, sa \in SmallAmounts, step \in TransfersOfCreate :
            offer_create_refused(k[1], k[2], k[3], k[4], sa, MaxAmount, 0, step)
    \/ \E id \in SameKeys, acc \in Users, a \in SmallAmounts,
          step \in TransfersOfAccept :
            offer_accept_refused(id, acc, a, step)
    \/ \E id \in SameKeys : offer_close_refused(id)

SpecSame == InitTwo /\ [][NextSame]_vars

----------------------------------------------------------------------------
(* Properties *)

Terminal(offer) == offer.status \in {COMPLETE, CANCEL}

NotAvailable == "offer not available"

\* what a step adds to an account's balance of a token
Delta(t, a) == balance'[t][a] - balance[t][a]

\* floor(amount * fee_rate / 10^decimals) under the current fee policy
FeeOf(amount) == (amount * fee_info.fee_rate) \div Pow10(FEE_DECIMALS)

\* the step is a successful call of op (a failing call changes nothing)
Succeeds(op) == last_call'.op = op /\ vars' # vars

\* a terminal record is never written again
TerminalFrozen(id) ==
    id \in DOMAIN offers' /\ offers'[id] = offers[id]

\* C1 as stated: once an offer is COMPLETE or CANCEL, every accept, update
\* and close on its id fails with "offer not available" and the stored
\* record never changes again.
C1_Original ==
    /\ [](\A id \in DOMAIN offers : Terminal(offers[id]) =>
            /\ \A acc \in Users, a \in Amounts, au \in BOOLEAN :
                  accept_result(id, acc, a, au) = NotAvailable
            /\ \A ra \in Amounts, mra \in Amounts, au \in BOOLEAN :
                  update_result(id, ra, mra, au) = NotAvailable
            /\ \A au \in BOOLEAN : close_result(id, au) = NotAvailable)
    /\ [][\A id \in DOMAIN offers : Terminal(offers[id]) => TerminalFrozen(id)]_vars

\* C1 amended: once an offer is COMPLETE or CANCEL, every accept and close on
\* its id fails with "offer not available"; every update fails too, with
\* "offer not available" when its arguments are valid (recv_amount > 0 and
\* min_recv_amount <= recv_amount) and with the argument error otherwise; the
\* stored record never changes again, so the offer never returns to ACTIVE.
C1_TerminalAbsorbing ==
    /\ [](\A id \in DOMAIN offers : Terminal(offers[id]) =>
            /\ \A acc \in Users, a \in Amounts, au \in BOOLEAN :
                  accept_result(id, acc, a, au) = NotAvailable
            /\ \A ra \in Amounts, mra \in Amounts, au \in BOOLEAN :
                  /\ update_result(id, ra, mra, au) # Ok
                  /\ (ra > 0 /\ mra <= ra) =>
                        update_result(id, ra, mra, au) = NotAvailable
                  /\ ra = 0 =>
                        update_result(id, ra, mra, au) = "zero amount is not allowed"
            /\ \A au \in BOOLEAN : close_result(id, au) = NotAvailable)
    /\ [][\A id \in DOMAIN offers : Terminal(offers[id]) => TerminalFrozen(id)]_vars

\* a terminal offer on which accept, update and close have been tried
C1_Witness ==
    \E id \in DOMAIN offers :
        /\ offers[id].status = COMPLETE
        /\ accept_result(id, "bob", 1, TRUE) = NotAvailable
        /\ update_result(id, 1, 1, TRUE) = NotAvailable
        /\ update_result(id, 0, 0, TRUE) = "zero amount is not allowed"
        /\ close_result(id, TRUE) = NotAvailable

\* C2: for every stored offer, ACTIVE implies recv_amount > 0, and
\* recv_amount = 0 exactly when the status is COMPLETE (a CANCEL offer keeps
\* recv_amount > 0).
C2_RecvAmountAndStatus ==
    \A id \in DOMAIN offers :
        /\ offers[id].status = ACTIVE => offers[id].recv_amount > 0
        /\ offers[id].recv_amount = 0 <=> offers[id].status = COMPLETE

\* an accept of the whole remaining recv_amount has completed an offer
C2_Witness ==
    /\ last_call.op = "accept"
    /\ offers[last_call.id].status = COMPLETE
    /\ offers[last_call.id].recv_amount = 0
    /\ fills[last_call.id].accepted > last_call.amount

\* C3: min_recv_amount <= recv_amount for every ACTIVE offer, after any
\* sequence of successful creates, updates and accepts.
C3_MinAtMostRecv ==
    \A id \in DOMAIN offers :
        offers[id].status = ACTIVE =>
            offers[id].min_recv_amount <= offers[id].recv_amount

\* an accept has left less than it took, and the offer is still ACTIVE with
\* its minimum at the remaining amount
C3_Witness ==
    /\ last_call.op = "accept"
    /\ offers[last_call.id].status = ACTIVE
    /\ offers[last_call.id].recv_amount < last_call.amount
    /\ offers[last_call.id].min_recv_amount = offers[last_call.id].recv_amount

\* C4 as stated: send_amount and recv_amount change only by the
\* proportional-fill rule of accept, and no successful operation leaves
\* either of them larger than before.
C4_Original ==
    [][\A id \in DOMAIN offers :
        /\ id \in DOMAIN offers'
        /\ offers'[id].send_amount <= offers[id].send_amount
        /\ offers'[id].recv_amount <= offers[id].recv_amount
        /\ (offers'[id].send_amount # offers[id].send_amount
              \/ offers'[id].recv_amount # offers[id].recv_amount) =>
                /\ last_call'.op = "accept" /\ last_call'.id = id
                /\ offers'[id].recv_amount =
                      offers[id].recv_amount - last_call'.amount
                /\ offers'[id].send_amount = offers[id].send_amount -
                      (last_call'.amount * offers[id].send_amount)
                          \div offers[id].recv_amount]_vars

\* C4 amended: send_amount changes only by the proportional-fill rule of
\* accept and never grows; recv_amount changes only by accept, which lowers it
\* by the accepted amount, and by update, which overwrites it with any
\* positive value, larger or smaller than before.
C4_AmountsMoveByFillOrUpdate ==
    [][\A id \in DOMAIN offers :
        /\ id \in DOMAIN offers'
        /\ offers'[id].send_amount <= offers[id].send_amount
        /\ offers'[id].send_amount # offers[id].send_amount =>
                /\ last_call'.op = "accept" /\ last_call'.id = id
                /\ offers'[id].send_amount = offers[id].send_amount -
                      (last_call'.amount * offers[id].send_amount)
                          \div offers[id].recv_amount
        /\ offers'[id].recv_amount # offers[id].recv_amount =>
                /\ last_call'.id = id
                /\ \/ /\ last_call'.op = "accept"
                      /\ offers'[id].recv_amount =
                            offers[id].recv_amount - last_call'.amount
                   \/ /\ last_call'.op = "update"
                      /\ offers'[id].recv_amount = last_call'.recv_amount
                      /\ offers'[id].recv_amount > 0
        /\ last_call'.op # "update" =>
                offers'[id].recv_amount <= offers[id].recv_amount]_vars

\* an update has raised the recv_amount of an offer that accepts had lowered
C4_Witness ==
    /\ last_call.op = "update"
    /\ fills[last_call.id].released > 0
    /\ offers[last_call.id].recv_amount = MaxAmount
    /\ offers[last_call.id].send_amount < fills[last_call.id].init_send

\* C5: after any sequence of successful accepts on an offer, the send-asset
\* released over them is the initial send_amount minus the current one, and
\* the amounts accepted are the recv_amount at the start of the sequence (as
\* created or last updated) minus the current one.
C5_FillsAddUp ==
    \A id \in DOMAIN offers :
        /\ fills[id].released = fills[id].init_send - offers[id].send_amount
        /\ fills[id].accepted = fills[id].init_recv - offers[id].recv_amount

\* several accepts have released and taken something
C5_Witness ==
    /\ last_call.op = "accept"
    /\ fills[last_call.id].accepted > last_call.amount
    /\ last_call.amount > 0
    /\ fills[last_call.id].released >= 2
    /\ offers[last_call.id].send_amount > 0

\* C6: a successful create under fee rate r takes send_amount +
\* floor(send_amount * r / 10^decimals) of the send asset from the offeror,
\* puts send_amount into the escrow holding account and the fee into the fee
\* wallet, moves nothing else, and stores a new ACTIVE record with the given
\* amounts; it succeeds only when the offeror's balance and allowance cover
\* the total.
C6_CreateEffects ==
    [][Succeeds("create") =>
        LET c == last_call'
            id == c.id
            offeror == id[1]
            st == id[2]
            fee == FeeOf(c.send_amount)
            total == c.send_amount + fee
        IN  /\ c.who = offeror
            /\ id \notin DOMAIN offers
            /\ balance[st][offeror] >= total
            /\ allowance[st][offeror] >= total
            /\ \A t \in Tokens, a \in Accounts :
                  Delta(t, a) =
                      (IF t = st /\ a = offeror THEN -total ELSE 0)
                    + (IF t = st /\ a = contract THEN c.send_amount ELSE 0)
                    + (IF t = st /\ a = fee_info.fee_wallet THEN fee ELSE 0)
            /\ DOMAIN offers' = DOMAIN offers \cup {id}
            /\ offers'[id] = [offeror |-> offeror,
                              send_token |-> st,
                              recv_token |-> id[3],
                              send_amount |-> c.send_amount,
                              recv_amount |-> c.recv_amount,
                              min_recv_amount |-> c.min_recv_amount,
                              status |-> ACTIVE]
            /\ \A k \in DOMAIN offers : offers'[k] = offers[k]
            /\ allowance' = allowance]_vars

\* a create that paid a fee
C6_Witness ==
    /\ last_call.op = "create"
    /\ last_call.send_amount = 2
    /\ balance["A"]["fw"] = 1
    /\ balance["A"][contract] = 2
    /\ balance["A"]["alice"] = InitBalance - 3

C8_CloseRefunds ==
    /\ [][Succeeds("close") =>
            LET offer == offers[last_call'.id]
            IN  /\ offer.status = ACTIVE
                /\ \A t \in Tokens, a \in Accounts :
                      Delta(t, a) =
                          (IF t = offer.send_token /\ a = contract
                              THEN -offer.send_amount ELSE 0)
                        + (IF t = offer.send_token /\ a = offer.offeror
                              THEN offer.send_amount ELSE 0)
                /\ offers' = [offers EXCEPT ![last_call'.id].status = CANCEL]]_vars
    /\ [](\A id \in DOMAIN offers : offers[id].status = CANCEL =>
            \A acc \in Users, a \in Amounts, au \in BOOLEAN :
                accept_result(id, acc, a, au) # Ok)

\* an offer closed after partial accepts, its remaining send_amount back
\* with the offeror
C8_Witness ==
    /\ last_call.op = "close"
    /\ offers[last_call.id].status = CANCEL
    /\ fills[last_call.id].released > 0
    /\ offers[last_call.id].send_amount > 0
    /\ balance["A"][contract] = 0
    /\ accept_result(last_call.id, "bob", 1, TRUE) = NotAvailable

\* C9: a successful update overwrites recv_amount and min_recv_amount of its
\* offer and nothing else: the offer's send_amount, status, offeror and asset
\* ids, every other offer and every balance stay as they were; an update whose
\* new recv_amount is 0 or whose new min_recv_amount exceeds it fails.
C9_UpdateFrame ==
    /\ [][Succeeds("update") =>
            LET c == last_call'
            IN  /\ c.id \in DOMAIN offers
                /\ offers' = [offers EXCEPT
                        ![c.id].recv_amount = c.recv_amount,
                        ![c.id].min_recv_amount = c.min_recv_amount]
                /\ c.recv_amount > 0
                /\ c.min_recv_amount <= c.recv_amount
                /\ UNCHANGED <<balance, allowance, fee_info, allowed>>]_vars
    /\ [](\A id \in TwoKeys, ra \in Amounts, mra \in Amounts, au \in BOOLEAN :
            (ra = 0 \/ mra > ra) => update_result(id, ra, mra, au) # Ok)

\* alice's offer re-priced after a partial accept, next to bob's ACTIVE offer
C9_Witness ==
    /\ last_call.op = "update"
    /\ last_call.id = OfferKey("alice", "A", "B", 1)
    /\ DOMAIN offers = TwoKeys
    /\ \A id \in TwoKeys : offers[id].status = ACTIVE
    /\ fills[last_call.id].released = 1
    /\ offers[last_call.id].send_amount = 1
    /\ offers[last_call.id].recv_amount = 2
    /\ offers[last_call.id].min_recv_amount = 1
    /\ balance["B"][contract] = 2

\* C10 as stated: a create whose key is already stored is rejected with
\* "offer was already created", whatever the status of the stored offer and
\* whatever amounts it supplies.
C10_Original ==
    \A id \in DOMAIN offers :
        \A sa \in Amounts, ra \in Amounts, mra \in Amounts, au \in BOOLEAN :
            create_result(id[1], id[2], id[3], id[4], sa, ra, mra, au)
                = "offer was already created"

\* C10 amended: a create whose key is already stored is rejected whatever the
\* status of the stored offer and whatever amounts it supplies: with "offer
\* was already created" while both assets are allowlisted, and with "both
\* tokens aren't allowed" once one of them has been removed from the
\* allowlist; no successful create ever writes a stored id.
C10_DuplicateCreateRejected ==
    /\ [](\A id \in DOMAIN offers :
            \A sa \in Amounts, ra \in Amounts, mra \in Amounts, au \in BOOLEAN :
                LET res == create_result(id[1], id[2], id[3], id[4],
                                         sa, ra, mra, au)
                IN  IF allow_get(id[2]) /\ allow_get(id[3])
                    THEN res = "offer was already created"
                    ELSE res = "both tokens aren't allowed")
    /\ [][Succeeds("create") => last_call'.id \notin DOMAIN offers]_vars

\* a second create on the key of a COMPLETE offer, both assets allowlisted
C10_Witness ==
    \E id \in DOMAIN offers :
        /\ offers[id].status = COMPLETE
        /\ allow_get(id[2]) /\ allow_get(id[3])
        /\ create_result(id[1], id[2], id[3], id[4], 1, 1, 1, TRUE)
              = "offer was already created"

\* the panics of offer_accept's validation, all raised before require_auth
\* and before any transfer
AboveRecv == "amount is greater than max_recv_amount"
BelowMin == "amount must be more than min_recv_amount"
ValidationErrors == {"fee isn't set", NotAvailable, AboveRecv, BelowMin}

\* C11: an accept whose amount is strictly less than the offer's current
\* min_recv_amount, or strictly greater than its current recv_amount, fails in
\* validation (on an ACTIVE offer under a fee policy with the error of the
\* bound it breaks, the upper bound first), and every accept that succeeds had
\* min_recv_amount <= amount <= recv_amount; the failing call changes no offer
\* record and no balance.
C11_AcceptOutOfBoundsFails ==
    /\ [](\A id \in DOMAIN offers, acc \in Users, a \in Amounts, au \in BOOLEAN :
            LET offer == offers[id]
                res == accept_result(id, acc, a, au)
            IN  (a < offer.min_recv_amount \/ a > offer.recv_amount) =>
                    /\ res \in ValidationErrors
                    /\ (fee_check /\ offer.status = ACTIVE) =>
                          res = IF a > offer.recv_amount THEN AboveRecv
                                ELSE BelowMin)
    /\ [][\A id \in DOMAIN offers :
            (last_call'.op = "accept" /\ last_call'.id = id
                /\ (offers'[id] # offers[id] \/ balance' # balance)) =>
                    /\ offers[id].min_recv_amount <= last_call'.amount
                    /\ last_call'.amount <= offers[id].recv_amount]_vars

\* an ACTIVE offer with a minimum above 1 and room below MaxAmount, on which
\* a funded and authorized acceptor is refused below and above the bounds
C11_Witness ==
    \E id \in DOMAIN offers :
        /\ offers[id].status = ACTIVE
        /\ offers[id].min_recv_amount = 2
        /\ offers[id].recv_amount = 2
        /\ fills[id].released > 0
        /\ accept_result(id, "bob", 1, TRUE) = BelowMin
        /\ accept_result(id, "bob", 3, TRUE) = AboveRecv
        /\ accept_result(id, "bob", 2, TRUE) = Ok

\* the acceptor holds, and has granted, the amount and its fee
Funded(acc, offer, a) ==
    /\ balance[offer.recv_token][acc] >= a + FeeOf(a)
    /\ allowance[offer.recv_token][acc] >= a + FeeOf(a)

Overflow == "arithmetic overflow"

\* C12 as stated: in every reachable state with an ACTIVE offer, an accept of
\* amount equal to the current recv_amount satisfies min_recv_amount <= amount
\* <= recv_amount and, given a funded and authenticated acceptor, succeeds and
\* moves the offer to COMPLETE; after an accept that leaves recv_amount below
\* the previous min_recv_amount, min_recv_amount equals the new recv_amount.
C12_Original ==
    /\ [](\A id \in DOMAIN offers, acc \in Users :
            LET offer == offers[id]
                a == offer.recv_amount
            IN  offer.status = ACTIVE =>
                    /\ offer.min_recv_amount <= a /\ a <= offer.recv_amount
                    /\ Funded(acc, offer, a) =>
                          accept_result(id, acc, a, TRUE) = Ok)
    /\ [][Succeeds("accept") =>
            LET id == last_call'.id
            IN  /\ last_call'.amount = offers[id].recv_amount =>
                      offers'[id].status = COMPLETE
                /\ offers'[id].recv_amount < offers[id].min_recv_amount =>
                      offers'[id].min_recv_amount = offers'[id].recv_amount]_vars

\* C12 amended: in every reachable state with an ACTIVE offer, an accept of
\* amount equal to the current recv_amount satisfies min_recv_amount <= amount
\* <= recv_amount; given a funded and authenticated acceptor it succeeds and
\* moves the offer to COMPLETE when recv_amount * send_amount fits the i128
\* product, and fails with the arithmetic error otherwise; after an accept
\* that leaves the offer ACTIVE with recv_amount below the previous
\* min_recv_amount, min_recv_amount equals the new recv_amount (a COMPLETE
\* record keeps its last min_recv_amount).
C12_FillableUnlessOverflow ==
    /\ [](\A id \in DOMAIN offers, acc \in Users :
            LET offer == offers[id]
                a == offer.recv_amount
            IN  offer.status = ACTIVE =>
                    /\ offer.min_recv_amount <= a /\ a <= offer.recv_amount
                    /\ Funded(acc, offer, a) =>
                          accept_result(id, acc, a, TRUE) =
                              IF a * offer.send_amount <= I128_MAX
                              THEN Ok ELSE Overflow)
    /\ [][Succeeds("accept") =>
            LET id == last_call'.id
            IN  /\ last_call'.amount = offers[id].recv_amount =>
                      offers'[id].status = COMPLETE
                /\ (offers'[id].status = ACTIVE
                      /\ offers'[id].recv_amount < offers[id].min_recv_amount) =>
                      offers'[id].min_recv_amount = offers'[id].recv_amount
                /\ offers'[id].status = COMPLETE =>
                      offers'[id].min_recv_amount = offers[id].min_recv_amount]_vars

\* an accept has left less than the previous minimum, and a funded acceptor
\* can take the rest in one accept
C12_Witness ==
    /\ last_call.op = "accept"
    /\ offers[last_call.id].status = ACTIVE
    /\ last_call.amount = 2
    /\ offers[last_call.id].recv_amount = 1
    /\ offers[last_call.id].min_recv_amount = 1
    /\ Funded("bob", offers[last_call.id], 1)
    /\ accept_result(last_call.id, "bob", 1, TRUE) = Ok

NotAllowed == "both tokens aren't allowed"

\* the amounts a create is tried with where only their being zero and their
\* order matter: zero, the least and the largest
TriedAmounts == {0, 1, MaxAmount}

\* the keys of offers that are not stored yet
NewKeys == {OfferKey(u, st, rt, 2) : u \in Users, st \in Tokens, rt \in Tokens}

\* C13: removing an asset from the allowlist does not invalidate existing
\* offers: disallow_token writes no offer record and moves no balance, and on
\* an ACTIVE offer with a leg that is no longer allowlisted, close and update
\* succeed for the authenticated offeror (update with recv_amount > 0 and
\* min_recv_amount <= recv_amount) and accept succeeds for a funded and
\* authenticated acceptor with an amount inside the bounds whose product with
\* send_amount fits; a new create using a removed asset as either leg fails
\* with "both tokens aren't allowed".
C13_DisallowKeepsOffers ==
    /\ [][Succeeds("disallow_token") => UNCHANGED <<offers, balance, allowance>>]_vars
    /\ [](\A id \in DOMAIN offers :
            LET offer == offers[id]
            IN  (offer.status = ACTIVE
                   /\ (~allow_get(offer.send_token) \/ ~allow_get(offer.recv_token))) =>
                    /\ close_result(id, TRUE) = Ok
                    /\ \A ra \in 1..MaxAmount : \A mra \in 0..ra :
                          update_result(id, ra, mra, TRUE) = Ok
                    /\ \A acc \in Users, a \in offer.min_recv_amount..offer.recv_amount :
                          (Funded(acc, offer, a) /\ a * offer.send_amount <= I128_MAX) =>
                              accept_result(id, acc, a, TRUE) = Ok)
    /\ [](fee_check =>
            \A k \in NewKeys, sa \in TriedAmounts, ra \in TriedAmounts,
               mra \in TriedAmounts, au \in BOOLEAN :
                (~allow_get(k[2]) \/ ~allow_get(k[3])) =>
                    create_result(k[1], k[2], k[3], k[4], sa, ra, mra, au) = NotAllowed)

\* an accept has succeeded on an offer created before both of its assets
\* were removed from the allowlist; update and close are still open to the
\* offeror and a new create on its assets is refused
C13_Witness ==
    /\ last_call.op = "accept"
    /\ allowed = {}
    /\ offers[last_call.id].status = ACTIVE
    /\ close_result(last_call.id, TRUE) = Ok
    /\ update_result(last_call.id, 2, 1, TRUE) = Ok
    /\ create_result("bob", "A", "B", 2, 1, 1, 1, TRUE) = NotAllowed

\* the preconditions of a create, an accept, an update and a close
CreatePre(k, sa, ra, mra, au) ==
    /\ fee_check
    /\ k[2] \in allowed /\ k[3] \in allowed
    /\ k \notin DOMAIN offers
    /\ sa > 0 /\ ra > 0 /\ mra <= ra
    /\ au
    /\ balance[k[2]][k[1]] >= sa + FeeOf(sa)
    /\ allowance[k[2]][k[1]] >= sa + FeeOf(sa)

AcceptPre(id, acc, a, au) ==
    /\ id \in DOMAIN offers
    /\ fee_check
    /\ offers[id].status = ACTIVE
    /\ offers[id].min_recv_amount <= a /\ a <= offers[id].recv_amount
    /\ au
    /\ Funded(acc, offers[id], a)
    /\ a * offers[id].send_amount <= I128_MAX

UpdatePre(id, ra, mra, au) ==
    /\ ra > 0 /\ mra <= ra
    /\ id \in DOMAIN offers
    /\ offers[id].status = ACTIVE
    /\ au

ClosePre(id, au) ==
    /\ id \in DOMAIN offers
    /\ offers[id].status = ACTIVE
    /\ au

\* the step moves exactly amount of token t from one account to another,
\* together with the other movements given as a function of token and account
Moves(m) == \A t \in Tokens, acct \in Accounts : Delta(t, acct) = m[t][acct]

NoMoves == [t \in Tokens |-> [acct \in Accounts |-> 0]]

Move(m, t, from, to, amount) ==
    [[m EXCEPT ![t][from] = @ - amount] EXCEPT ![t][to] = @ + amount]

\* C14: every operation is all-or-nothing.  A create, accept, update or close
\* succeeds exactly when all of its preconditions hold; a call that fails (a
\* failed precondition, missing authorization, insufficient balance or
\* allowance, or a transfer the token contract refuses at any step) changes
\* nothing, so every step that changes an offer record or a balance is a
\* successful call with all of its transfers and its record write.
C14_AllOrNothing ==
    /\ [](\A k \in OneKey, au \in BOOLEAN :
            /\ \A sa \in Amounts, ra \in TriedAmounts, mra \in TriedAmounts :
                  create_result(k[1], k[2], k[3], k[4], sa, ra, mra, au) = Ok
                      <=> CreatePre(k, sa, ra, mra, au)
            /\ \A acc \in Users, a \in Amounts :
                  accept_result(k, acc, a, au) = Ok <=> AcceptPre(k, acc, a, au)
            /\ \A ra \in Amounts, mra \in Amounts :
                  update_result(k, ra, mra, au) = Ok <=> UpdatePre(k, ra, mra, au)
            /\ close_result(k, au) = Ok <=> ClosePre(k, au))
    /\ [][(offers' # offers \/ balance' # balance) =>
            LET c == last_call'
                id == c.id
            IN  \/ /\ Succeeds("create")
                   /\ CreatePre(id, c.send_amount, c.recv_amount,
                                c.min_recv_amount, TRUE)
                   /\ Moves(Move(Move(NoMoves, id[2], id[1], contract, c.send_amount),
                                 id[2], id[1], fee_info.fee_wallet,
                                 FeeOf(c.send_amount)))
                   /\ DOMAIN offers' = DOMAIN offers \cup {id}
                   /\ offers'[id].status = ACTIVE
                \/ /\ Succeeds("accept")
                   /\ AcceptPre(id, c.who, c.amount, TRUE)
                   /\ LET offer == offers[id]
                          prop == (c.amount * offer.send_amount) \div offer.recv_amount
                      IN  /\ Moves(Move(Move(Move(NoMoves,
                                    offer.recv_token, c.who, fee_info.fee_wallet,
                                    FeeOf(c.amount)),
                                    offer.recv_token, c.who, offer.offeror, c.amount),
                                    offer.send_token, contract, c.who, prop))
                          /\ offers'[id].recv_amount = offer.recv_amount - c.amount
                          /\ offers'[id].send_amount = offer.send_amount - prop
                \/ /\ Succeeds("update")
                   /\ UpdatePre(id, c.recv_amount, c.min_recv_amount, TRUE)
                   /\ Moves(NoMoves)
                   /\ offers'[id].recv_amount = c.recv_amount
                   /\ offers'[id].min_recv_amount = c.min_recv_amount
                \/ /\ Succeeds("close")
                   /\ ClosePre(id, TRUE)
                   /\ Moves(Move(NoMoves, offers[id].send_token, contract,
                                 offers[id].offeror, offers[id].send_amount))
                   /\ offers'[id].status = CANCEL]_vars

\* an ACTIVE offer on which calls fail for each kind of reason: a bound, the
\* missing authorization, the balance, the allowance; one accept would pass
\* its checks and reach its transfers
C14_Witness ==
    \E id \in DOMAIN offers :
        /\ offers[id].status = ACTIVE
        /\ offers[id].min_recv_amount = 1
        /\ allowance = ShortAllowance
        /\ accept_result(id, "bob", 1, TRUE) = Ok
        /\ accept_result(id, "bob", 1, FALSE) = "require_auth failed"
        /\ accept_result(id, "bob", 2, TRUE) = "insufficient allowance"
        /\ accept_result(id, "alice", 2, TRUE) = "insufficient balance"
        /\ accept_result(id, "bob", 0, TRUE) = BelowMin
        /\ close_result(id, FALSE) = "require_auth failed"
        /\ update_result(id, 1, 2, TRUE) # Ok

\* C15: on a successful accept of amount a, the released amount is
\* prop_send_amount = floor(a * send_amount / recv_amount), computed from the
\* record's values before the update (the largest p with p * recv_amount <=
\* a * send_amount); it leaves the escrow holding account, and the stored
\* record afterwards has send_amount reduced by exactly prop_send_amount and
\* recv_amount reduced by exactly a.
C15_ProportionalFill ==
    [][Succeeds("accept") =>
        LET id == last_call'.id
            a == last_call'.amount
            before == offers[id]
            after == offers'[id]
            p == before.send_amount - after.send_amount
        IN  /\ p >= 0
            /\ p * before.recv_amount <= a * before.send_amount
            /\ a * before.send_amount < (p + 1) * before.recv_amount
            /\ p = (a * before.send_amount) \div before.recv_amount
            /\ Delta(before.send_token, contract) = -p
            /\ after.recv_amount = before.recv_amount - a
            /\ fills'[id].released = fills[id].released + p]_vars

\* an accept of 2 out of 3 on an offer escrowing 2 has released floor(4/3) = 1
C15_Witness ==
    /\ last_call.op = "accept"
    /\ last_call.amount = 2
    /\ fills[last_call.id].init_send = 2
    /\ fills[last_call.id].init_recv = 3
    /\ fills[last_call.id].released = 1
    /\ offers[last_call.id].send_amount = 1
    /\ offers[last_call.id].recv_amount = 1
    /\ offers[last_call.id].status = ACTIVE

\* the errors of the six preconditions of create, in the order (1) to (6)
CreateErrors ==
    <<"fee wasn't set", NotAllowed, "offer was already created",
      "zero amount is not allowed",
      "min_recv_amount can't be greater than recv_amount",
      "require_auth failed">>

\* precondition number n of a create holds
CreateHolds(n, k, sa, ra, mra, au) ==
    CASE n = 1 -> fee_info # NoFee
      [] n = 2 -> k[2] \in allowed /\ k[3] \in allowed
      [] n = 3 -> k \notin DOMAIN offers
      [] n = 4 -> sa > 0 /\ ra > 0
      [] n = 5 -> mra <= ra
      [] n = 6 -> au

\* the keys a create is tried with: the one that gets stored and a new one
TriedKeys == OneKey \cup {OfferKey("bob", "B", "B", 2)}

\* C16: create checks its preconditions in the order (1) fee policy
\* configured, (2) both assets allowlisted, (3) derived OfferId not already
\* stored, (4) send_amount > 0 and recv_amount > 0, (5) min_recv_amount <=
\* recv_amount, (6) offeror authentication, and reports the first that fails:
\* the error is that of precondition n exactly when n fails and every
\* lower-numbered one holds.
C16_CreateOrder ==
    \A k \in TriedKeys, sa \in {0, 1}, ra \in TriedAmounts, mra \in TriedAmounts,
       au \in BOOLEAN :
        LET res == create_result(k[1], k[2], k[3], k[4], sa, ra, mra, au)
        IN  \A n \in 1..6 :
                res = CreateErrors[n]
                    <=> /\ ~CreateHolds(n, k, sa, ra, mra, au)
                        /\ \A m \in 1..(n - 1) : CreateHolds(m, k, sa, ra, mra, au)

\* the key of a stored offer with an asset removed from the allowlist: a
\* create violating (2) to (6) at once reports (2), and on a new key over the
\* other asset a create violating (4), (5) and (6) reports (4)
C16_Witness ==
    /\ OfferKey("alice", "A", "B", 1) \in DOMAIN offers
    /\ allowed = {"B"}
    /\ create_result("alice", "A", "B", 1, 0, 0, 1, FALSE) = NotAllowed
    /\ create_result("bob", "B", "B", 2, 0, 0, 1, FALSE) = "zero amount is not allowed"
    /\ create_result("bob", "B", "B", 2, 1, 1, 2, FALSE)
          = "min_recv_amount can't be greater than recv_amount"
    /\ create_result("bob", "B", "B", 2, 1, 1, 1, FALSE) = "require_auth failed"

\* what an authenticated accept is answered, and whether its acceptor is
\* funded, in the current state
NextAccept(id, acc, a) == accept_result(id, acc, a, TRUE)
FundedFor(id, acc, a) == Funded(acc, offers[id], a)

\* C17: accept calls of several acceptors against the same ACTIVE offer take
\* effect one at a time, each validated against the record the previous one
\* left: after a successful accept of a1, an accept of a2 that fitted the
\* former recv_amount with a1 + a2 above it fails, and one that fits what is
\* left, from a funded and authenticated acceptor, succeeds; no accept's
\* effect is lost, so the amounts accepted since the offer was created or
\* last updated never exceed the recv_amount it had then.
C17_AcceptsSerialized ==
    /\ [](\A id \in DOMAIN offers :
            /\ fills[id].accepted <= fills[id].init_recv
            /\ offers[id].recv_amount = fills[id].init_recv - fills[id].accepted)
    /\ [][\A id \in DOMAIN offers : (Succeeds("accept") /\ last_call'.id = id) =>
            LET a1 == last_call'.amount
                before == offers[id]
                after == offers'[id]
            IN  /\ fills'[id].accepted = fills[id].accepted + a1
                /\ \A acc2 \in Users, a2 \in Amounts :
                      a2 <= before.recv_amount =>
                          /\ a1 + a2 > before.recv_amount =>
                                NextAccept(id, acc2, a2)' =
                                    IF after.status = ACTIVE
                                    THEN AboveRecv ELSE NotAvailable
                          /\ (/\ a1 + a2 <= before.recv_amount
                              /\ after.status = ACTIVE
                              /\ a2 >= after.min_recv_amount
                              /\ FundedFor(id, acc2, a2)'
                              /\ a2 * after.send_amount <= I128_MAX) =>
                                NextAccept(id, acc2, a2)' = Ok]_vars

\* alice has accepted 1 after bob did: 2 of 3 are taken, and bob's accept of
\* the 2 that were left before alice's call is refused
C17_Witness ==
    /\ last_call.op = "accept"
    /\ last_call.who = "alice"
    /\ last_call.amount = 1
    /\ fills[last_call.id].init_recv = 3
    /\ fills[last_call.id].accepted = 2
    /\ offers[last_call.id].recv_amount = 1
    /\ accept_result(last_call.id, "bob", 2, TRUE) = AboveRecv
    /\ accept_result(last_call.id, "bob", 1, TRUE) = Ok

\* C18: an accept whose product amount * send_amount exceeds the i128 range
\* fails, with the arithmetic error when it gets as far as the multiplication
\* (fee policy set, offer ACTIVE, amount inside the bounds, acceptor
\* authenticated and funded), and changes no record and no balance; an accept
\* that succeeds had its product in range and moved the exact amounts, the
\* fee f with f * 10^decimals <= amount * fee_rate < (f + 1) * 10^decimals
\* and the released p with p * recv_amount <= amount * send_amount <
\* (p + 1) * recv_amount, never a wrapped value.
C18_OverflowFails ==
    /\ [](\A id \in DOMAIN offers, acc \in Users, a \in Amounts, au \in BOOLEAN :
            LET offer == offers[id]
                res == accept_result(id, acc, a, au)
            IN  a * offer.send_amount > I128_MAX =>
                    /\ res # Ok
                    /\ (/\ fee_check /\ offer.status = ACTIVE
                        /\ offer.min_recv_amount <= a /\ a <= offer.recv_amount
                        /\ au /\ Funded(acc, offer, a)) => res = Overflow)
    /\ [][Succeeds("accept") =>
            LET c == last_call'
                offer == offers[c.id]
                f == Delta(offer.recv_token, fee_info.fee_wallet)
                p == -Delta(offer.send_token, contract)
            IN  /\ c.amount * offer.send_amount <= I128_MAX
                /\ f >= 0 /\ p >= 0
                /\ f * Pow10(FEE_DECIMALS) <= c.amount * fee_info.fee_rate
                /\ c.amount * fee_info.fee_rate < (f + 1) * Pow10(FEE_DECIMALS)
                /\ p * offer.recv_amount <= c.amount * offer.send_amount
                /\ c.amount * offer.send_amount < (p + 1) * offer.recv_amount]_vars

\* an ACTIVE offer with send_amount = recv_amount = MaxAmount: the accept of
\* the whole of it by a funded and authenticated acceptor overflows, a smaller
\* one passes
C18_Witness ==
    \E id \in DOMAIN offers :
        /\ offers[id].status = ACTIVE
        /\ offers[id].send_amount = MaxAmount
        /\ offers[id].recv_amount = MaxAmount
        /\ Funded("bob", offers[id], MaxAmount)
        /\ accept_result(id, "bob", MaxAmount, TRUE) = Overflow
        /\ accept_result(id, "bob", MaxAmount - 1, TRUE) = Ok

\* C19: whenever an offer is COMPLETE its send_amount is 0: the accept that
\* takes the remaining recv_amount releases the entire remaining send_amount,
\* so nothing of the send asset of a completed offer stays in escrow, for any
\* preceding sequence of partial accepts and updates.
C19_CompleteReleasesAll ==
    /\ [](\A id \in DOMAIN offers : offers[id].status = COMPLETE =>
            /\ offers[id].send_amount = 0
            /\ fills[id].released = fills[id].init_send
            /\ DOMAIN offers = {id} => balance[offers[id].send_token][contract] = 0)
    /\ [][\A id \in DOMAIN offers :
            (offers[id].status = ACTIVE /\ offers'[id].status = COMPLETE) =>
                /\ Succeeds("accept") /\ last_call'.id = id
                /\ last_call'.amount = offers[id].recv_amount
                /\ Delta(offers[id].send_token, last_call'.who) = offers[id].send_amount
                /\ Delta(offers[id].send_token, contract) = -offers[id].send_amount]_vars

\* an offer completed by an accept of 1 after a partial accept and an update:
\* all 3 of the send asset are released and none is left in escrow
C19_Witness ==
    /\ last_call.op = "accept"
    /\ last_call.amount = 1
    /\ offers[last_call.id].status = COMPLETE
    /\ offers[last_call.id].send_amount = 0
    /\ fills[last_call.id].init_send = 3
    /\ fills[last_call.id].released = 3
    /\ fills[last_call.id].init_recv = 1
    /\ balance["B"]["alice"] >= 2
    /\ balance["A"][contract] = 0

\* the send_amount of the ACTIVE offers among ids that escrow token t, added up
RECURSIVE Escrowed(_, _)
Escrowed(t, ids) ==
    IF ids = {} THEN 0
    ELSE LET id == CHOOSE x \in ids : TRUE
             rest == Escrowed(t, ids \ {id})
         IN  IF offers[id].status = ACTIVE /\ offers[id].send_token = t
             THEN offers[id].send_amount + rest
             ELSE rest

\* C20: escrow solvency.  For each asset, the escrow holding account's
\* balance of it equals the sum of send_amount over the ACTIVE offers whose
\* send asset it is (the holding account is no offeror, acceptor or fee
\* wallet); every offer's send_amount stays >= 0, and neither the
\* escrow-to-acceptor transfer of an accept nor the refund of a close fails
\* for lack of escrowed funds.
C20_EscrowSolvency ==
    /\ \A t \in Tokens : balance[t][contract] = Escrowed(t, DOMAIN offers)
    /\ \A id \in DOMAIN offers :
            LET offer == offers[id]
            IN  /\ offer.send_amount >= 0
                /\ offer.status = ACTIVE =>
                      /\ balance[offer.send_token][contract] >= offer.send_amount
                      /\ close_result(id, TRUE) = Ok
                      /\ \A acc \in Users, a \in Amounts :
                            accept_result(id, acc, a, TRUE) # "transfer failed"

\* two ACTIVE offers escrowing the same asset, one of them partly filled:
\* the holding account holds the sum of what is left of both
C20_Witness ==
    /\ DOMAIN offers = SameKeys
    /\ \A id \in SameKeys : offers[id].status = ACTIVE
    /\ offers[OfferKey("alice", "A", "B", 1)].send_amount = 1
    /\ fills[OfferKey("alice", "A", "B", 1)].released = 1
    /\ offers[OfferKey("alice", "A", "B", 2)].send_amount = 1
    /\ balance["A"][contract] = 2
    /\ balance["A"]["bob"] = 1

====
